---- MODULE Spec2Model ----
(***************************************************************************)
(* The client state store of src/src/pages/index.tsx (EMDRApp): the React  *)
(* state of the page (gap, amplitude, speed, dotColor, notes, the note     *)
(* form), localStorage under the two keys, the debounced save timer and    *)
(* the page's life cycle (mount effects, the render they queue, teardown). *)
(*                                                                         *)
(* Units: speed is held in tenths (1.0 is 10, the stepper's 0.5 is 5), so  *)
(* that the model stays in the integers.  Time is in milliseconds.         *)
(***************************************************************************)
EXTENDS Integers, Sequences, FiniteSets

VARIABLES
    phase,        \* "init" | "flush" | "ready" | "crashed" | "unmounted"
    gap,          \* useState(40)
    amplitude,    \* useState(50)
    speed,        \* useState(1), in tenths
    dotColor,     \* useState("#00ffaa")
    notes,        \* useState<Note[]>([])
    showNoteForm, \* useState(false)
    newNote,      \* useState({ title, content, date })
    queued,       \* state updates queued by the load effect, applied by the next render
    timer,        \* the pending setTimeout of the debounced-save effect
    storage,      \* localStorage: key -> item
    access,       \* "ok" | "denied": whether localStorage can be used at all
    now,          \* Date.now()
    hist          \* history of the run (what the claims observe), no program state

vars == <<phase, gap, amplitude, speed, dotColor, notes, showNoteForm,
          newNote, queued, timer, storage, access, now, hist>>

(***************************************************************************)
(* Program constants.                                                      *)
(***************************************************************************)
APP_STATE_KEY == "emdr-app-state"
NOTES_KEY == "emdr-notes"
Keys == {APP_STATE_KEY, NOTES_KEY}

DEBOUNCE_MS == 500

DEFAULT_GAP == 40
DEFAULT_AMPLITUDE == 50
DEFAULT_SPEED == 10
DEFAULT_COLOR == "#00ffaa"

GAP_MIN == 10
GAP_MAX == 200
GAP_STEP == 5
AMPLITUDE_MIN == 10
AMPLITUDE_MAX == 50
AMPLITUDE_STEP == 5
SPEED_MIN == 5
SPEED_MAX == 100
SPEED_STEP == 5

(***************************************************************************)
(* Bounds of the model.                                                    *)
(***************************************************************************)
\* mutations of gap, amplitude, speed, dotColor and notes explored per run
MaxMutations == 2
\* the clock is followed for this many ticks after page load, then saturates
MaxClockTicks == 1
\* a tick of the clock is DEBOUNCE_MS divided by this
TicksPerDebounce == 2

TickMs == DEBOUNCE_MS \div TicksPerDebounce
\* Date.now() at page load
StartNow == 4 * DEBOUNCE_MS
MaxNow == StartNow + MaxClockTicks * TickMs

Min(a, b) == IF a < b THEN a ELSE b
Max(a, b) == IF a > b THEN a ELSE b

(***************************************************************************)
(* JavaScript values.  Every value carries its type, so that a number, a   *)
(* string, undefined, null and NaN are distinct and comparable.            *)
(***************************************************************************)
Num(n) == [t |-> "num", n |-> n]
Str(s) == [t |-> "str", s |-> s]
Arr(a) == [t |-> "arr", a |-> a]
Obj(o) == [t |-> "obj", o |-> o]
Undef == [t |-> "undef"]
Null == [t |-> "null"]
NaN == [t |-> "nan"]

SettingFields == {"gap", "amplitude", "speed", "dotColor"}
StateFields == SettingFields \cup {"notes"}

\* the AppState object literal of saveAppState, built from a render's state
AppStateOf(g, a, s, c, n) ==
    [gap |-> g, amplitude |-> a, speed |-> s, dotColor |-> c, notes |-> n]

CurrentState == AppStateOf(gap, amplitude, speed, dotColor, notes)

DefaultState ==
    AppStateOf(Num(DEFAULT_GAP), Num(DEFAULT_AMPLITUDE), Num(DEFAULT_SPEED),
               Str(DEFAULT_COLOR), Arr(<<>>))

(***************************************************************************)
(* Strings the code inspects character by character are sequences of       *)
(* characters: a note's title (trim) and its id (Date.now().toString()).   *)
(***************************************************************************)
WhiteSpace == {" "}

RECURSIVE TrimStart(_)
TrimStart(s) ==
    IF s # <<>> /\ Head(s) \in WhiteSpace THEN TrimStart(Tail(s)) ELSE s

RECURSIVE TrimEnd(_)
TrimEnd(s) ==
    IF s # <<>> /\ s[Len(s)] \in WhiteSpace
    THEN TrimEnd(SubSeq(s, 1, Len(s) - 1))
    ELSE s

\* a trim that removes nothing
Trim_None(s) == s

\* String.prototype.trim
Trim(s) == TrimEnd(TrimStart(s))

\* Number.prototype.toString of a non-negative integer: its decimal digits
RECURSIVE NumberToString(_)
NumberToString(n) ==
    IF n < 10 THEN <<n>> ELSE Append(NumberToString(n \div 10), n % 10)

\* new Date().toISOString().split("T")[0]; a run stays within one calendar day
Today == "2025-01-15"

(***************************************************************************)
(* JSON.  A stored text is modelled by the JSON value it denotes; an       *)
(* in-memory note is a record of plain strings, its JSON form an object of *)
(* JSON strings.                                                           *)
(***************************************************************************)
NoteToJson(n) ==
    Obj([id |-> Str(n.id), title |-> Str(n.title),
         content |-> Str(n.content), date |-> Str(n.date)])

NoteFromJson(j) ==
    [id |-> j.o.id.s, title |-> j.o.title.s,
     content |-> j.o.content.s, date |-> j.o.date.s]

\* a serialisation that writes null in place of an array
ToJson_NoArrays(v) ==
    CASE v.t = "num" -> v
      [] v.t = "str" -> v
      [] OTHER -> Null

\* JSON.stringify of one value: NaN is written as null
ToJson(v) ==
    CASE v.t = "num" -> v
      [] v.t = "str" -> v
      [] v.t = "arr" -> Arr([i \in 1..Len(v.a) |-> NoteToJson(v.a[i])])
      [] OTHER -> Null

\* the value JSON.parse builds for one JSON value
FromJson(j) ==
    CASE j.t = "num" -> j
      [] j.t = "str" -> j
      [] j.t = "arr" -> Arr([i \in 1..Len(j.a) |-> NoteFromJson(j.a[i])])
      [] OTHER -> Null

\* a stringify that writes the four settings only
Stringify_SettingsOnly(appState) ==
    Obj([f \in SettingFields |-> ToJson(appState[f])])

\* JSON.stringify(appState): a property whose value is undefined is left out
Stringify(appState) ==
    LET present == {f \in StateFields : appState[f].t # "undef"}
    IN  Obj([f \in present |-> ToJson(appState[f])])

\* parsedState.<f>: a missing property reads as undefined
Property(parsed, f) ==
    IF f \in DOMAIN parsed.o THEN FromJson(parsed.o[f]) ELSE Undef

(***************************************************************************)
(* localStorage items.                                                     *)
(***************************************************************************)
NoItem == [k |-> "none"]          \* getItem returns null
EmptyItem == [k |-> "empty"]      \* the empty string
Garbage == [k |-> "garbage"]      \* a text JSON.parse rejects
Text(json) == [k |-> "text", json |-> json]

\* if (savedState) / if (savedNotes): null and "" are falsy
Truthy(item) == item.k \notin {"none", "empty"}

NoUpdates == [f \in {} |-> Undef]

\* loadAppState: the value it returns and the setters it calls
LoadAppState(store, acc) ==
    LET savedState == store[APP_STATE_KEY]
        failed == [loaded |-> FALSE, updates |-> NoUpdates]
    IN  IF acc # "ok" THEN failed                       \* getItem throws, caught
        ELSE IF ~Truthy(savedState) THEN failed
        ELSE IF savedState.k = "garbage" THEN failed    \* JSON.parse throws, caught
        ELSE IF savedState.json.t # "obj" THEN failed   \* null.gap throws, caught
        ELSE [loaded |-> TRUE,
              updates |-> [f \in StateFields |-> Property(savedState.json, f)]]

\* a fallback taken only when the primary key is absent
InitialLoad_OnlyWhenAbsent(store, acc) ==
    LET r == LoadAppState(store, acc)
        savedNotes == store[NOTES_KEY]
        base == [loaded |-> r.loaded, updates |-> r.updates,
                 legacyRead |-> FALSE, threw |-> FALSE]
    IN  IF r.loaded \/ store[APP_STATE_KEY] # NoItem THEN base
        ELSE IF acc # "ok"
            THEN [base EXCEPT !.legacyRead = TRUE, !.threw = TRUE]
        ELSE IF ~Truthy(savedNotes)
            THEN [base EXCEPT !.legacyRead = TRUE]
        ELSE IF savedNotes.k = "garbage"
            THEN [base EXCEPT !.legacyRead = TRUE, !.threw = TRUE]
        ELSE [base EXCEPT !.legacyRead = TRUE,
                          !.updates = [f \in {"notes"} |-> FromJson(savedNotes.json)]]

(***************************************************************************)
(* The initial-load effect: loadAppState, then the legacy fallback, which  *)
(* is outside any try/catch.                                               *)
(*   threw      an exception left the effect                               *)
(*   legacyRead localStorage.getItem(NOTES_KEY) was called                 *)
(***************************************************************************)
InitialLoad(store, acc) ==
    LET r == LoadAppState(store, acc)
        savedNotes == store[NOTES_KEY]
        base == [loaded |-> r.loaded, updates |-> r.updates,
                 legacyRead |-> FALSE, threw |-> FALSE]
    IN  IF r.loaded THEN base
        ELSE IF acc # "ok"
            THEN [base EXCEPT !.legacyRead = TRUE, !.threw = TRUE]
        ELSE IF ~Truthy(savedNotes)
            THEN [base EXCEPT !.legacyRead = TRUE]
        ELSE IF savedNotes.k = "garbage"
            THEN [base EXCEPT !.legacyRead = TRUE, !.threw = TRUE]
        ELSE [base EXCEPT !.legacyRead = TRUE,
                          !.updates = [f \in {"notes"} |-> FromJson(savedNotes.json)]]

\* saveAppState: localStorage.setItem(APP_STATE_KEY, JSON.stringify(appState));
\* writeOk is whether setItem returned (it throws when the quota is exceeded
\* or storage is denied; the exception is caught and logged)
SaveAppState(store, appState, writeOk) ==
    IF writeOk
    THEN [store EXCEPT ![APP_STATE_KEY] = Text(Stringify(appState))]
    ELSE store

\* the outcomes setItem can have
WriteOutcomes == IF access = "ok" THEN BOOLEAN ELSE {FALSE}

\* incrementValue: Math.min(max, Math.max(min, value + increment))
Plus(value, increment) ==
    CASE value.t = "num" -> Num(value.n + increment)
      [] value.t = "null" -> Num(increment)
      [] OTHER -> NaN

MathMax(lo, v) == IF v.t = "num" THEN Num(Max(lo, v.n)) ELSE NaN

MathMin(hi, v) == IF v.t = "num" THEN Num(Min(hi, v.n)) ELSE NaN

\* a clamp that forgets the upper bound
incrementValue_NoMax(value, increment, min, max) ==
    MathMax(min, Plus(value, increment))

incrementValue(value, increment, min, max) ==
    MathMin(max, MathMax(min, Plus(value, increment)))

\* handleAddNote's new notes array: [newNoteWithId, ...prev]
AddNote(prev, draft, id) ==
    <<[id |-> id, title |-> draft.title, content |-> draft.content,
       date |-> draft.date]>> \o prev

\* a filter with the comparison inverted
DeleteNote_KeepMatching(prev, id) == SelectSeq(prev, LAMBDA note : note.id = id)

\* handleDeleteNote's new notes array: prev.filter((note) => note.id !== id)
DeleteNote(prev, id) == SelectSeq(prev, LAMBDA note : note.id # id)

\* the form's reset value
EmptyDraft == [title |-> <<>>, content |-> "", date |-> Today]

(***************************************************************************)
(* Inputs of the model: what localStorage may hold when the page loads and *)
(* what the user may enter.                                                *)
(***************************************************************************)
\* a note written by an earlier session
OldNote ==
    [id |-> NumberToString(DEBOUNCE_MS), title |-> <<"o">>, content |-> "old",
     date |-> "2025-01-01"]

\* an AppState an earlier session saved (every setting at a bound)
SavedState ==
    AppStateOf(Num(GAP_MAX), Num(AMPLITUDE_MIN), Num(SPEED_MIN), Str("#ff0000"),
               Arr(<<OldNote>>))

\* a record that parses but carries a gap no control of the page can produce
OutOfRangeState ==
    AppStateOf(Num(GAP_MAX + GAP_MAX), Num(DEFAULT_AMPLITUDE), Num(DEFAULT_SPEED),
               Str(DEFAULT_COLOR), Arr(<<>>))

StorageAt(primary, legacy) ==
    [k \in Keys |-> IF k = APP_STATE_KEY THEN primary ELSE legacy]

SavedRecord == Text(Stringify(SavedState))
OutOfRangeRecord == Text(Stringify(OutOfRangeState))
PartialRecord == Text(Obj(NoUpdates))           \* the text {}
\* a record holding speed and notes only
SparseRecord ==
    Text(Obj([f \in {"speed", "notes"} |-> ToJson(DefaultState[f])]))
NullRecord == Text(Null)                          \* the text null
LegacyRecord == Text(ToJson(Arr(<<OldNote>>)))

\* a saved record from which dotColor is missing
ColorlessRecord ==
    Text(Obj([f \in StateFields \ {"dotColor"} |-> ToJson(SavedState[f])]))

\* what the two keys may hold when the page loads
BootStorages ==
    {StorageAt(NoItem, NoItem), StorageAt(NoItem, LegacyRecord),
     StorageAt(NoItem, Garbage), StorageAt(EmptyItem, LegacyRecord),
     StorageAt(Garbage, NoItem), StorageAt(Garbage, LegacyRecord),
     StorageAt(NullRecord, LegacyRecord),
     StorageAt(SavedRecord, NoItem), StorageAt(SavedRecord, LegacyRecord),
     StorageAt(SavedRecord, Garbage),
     StorageAt(OutOfRangeRecord, NoItem), StorageAt(PartialRecord, NoItem),
     StorageAt(SparseRecord, NoItem)}

Titles == {<<" ">>, <<" ", "a">>}
Contents == {"c"}
Dates == {"2025-01-14"}
Colors == {"#ff0000"}
GapSliderValues == {GAP_MAX - 2}
AmplitudeSliderValues == {AMPLITUDE_MIN + 2}
SpeedSliderValues == {SPEED_MIN + 2}
StepSigns == {-1, 1}
\* an id no note carries
MissingId == <<0>>

(***************************************************************************)
(* The debounced-save effect.  Its dependency list holds saveAppState, a   *)
(* function created anew by every render, so the effect runs after every   *)
(* render: the cleanup clears the pending timer and a new one is set whose *)
(* callback closes over that render's state.                               *)
(***************************************************************************)
NoTimer == [on |-> FALSE]

\* an effect without cleanup: a timer already pending stays as it is
DebouncedSaveEffect_NoCleanup(old, appState) ==
    IF old.on THEN old ELSE [on |-> TRUE, age |-> 0, snap |-> appState]

\* an effect whose cleanup does not restart the delay of a pending timer
DebouncedSaveEffect_KeepDelay(old, appState) ==
    [on |-> TRUE, age |-> IF old.on THEN old.age ELSE 0, snap |-> appState]

DebouncedSaveEffect(old, appState) == [on |-> TRUE, age |-> 0, snap |-> appState]

\* the history after a render that a mutation of the five fields caused
Mutated(h, op, arg, pre) ==
    [h EXCEPT !.muts = @ + 1, !.lastRender = "mutation", !.quiet = 0,
              !.burst = IF h.lastRender = "mutation" /\ h.quiet < DEBOUNCE_MS
                        THEN Min(@ + 1, 2) ELSE 1,
              !.autoAttempts = 0, !.autoWrites = 0, !.failed = FALSE,
              !.idle = FALSE,
              !.op = op, !.arg = arg, !.pre = pre]

\* op, arg and pre describe the handler that took the last step, when it is
\* one the claims are about; any other step clears them
NoOp(h) == [h EXCEPT !.op = "none", !.arg = 0, !.pre = 0]

\* the history after a render that changed none of the five fields
Rendered(h) ==
    NoOp([h EXCEPT !.lastRender = "other", !.burst = 0, !.autoAttempts = 0,
                   !.autoWrites = 0])

Snapshot == [app |-> CurrentState, show |-> showNoteForm, draft |-> newNote]

InitWith(boots, accesses) ==
    /\ phase = "init"
    /\ gap = Num(DEFAULT_GAP)
    /\ amplitude = Num(DEFAULT_AMPLITUDE)
    /\ speed = Num(DEFAULT_SPEED)
    /\ dotColor = Str(DEFAULT_COLOR)
    /\ notes = Arr(<<>>)
    /\ showNoteForm = FALSE
    /\ newNote = EmptyDraft
    /\ queued = NoUpdates
    /\ timer = NoTimer
    /\ storage \in boots
    /\ access \in accesses
    /\ access = "denied" => storage = StorageAt(NoItem, NoItem)
    /\ now = StartNow
    /\ hist = [muts |-> 0, lastRender |-> "none", quiet |-> 0, burst |-> 0,
               autoAttempts |-> 0, autoWrites |-> 0,
               loaded |-> "pending", legacyRead |-> FALSE, threw |-> FALSE,
               failed |-> FALSE, idle |-> FALSE, written |-> Undef,
               op |-> "none", arg |-> 0, pre |-> 0,
               boot |-> storage[APP_STATE_KEY]]

Init ==
    InitWith({StorageAt(NoItem, NoItem), StorageAt(SavedRecord, NoItem)}, {"ok"})

(***************************************************************************)
(* Mount: the first render shows the defaults; then the effects run.  The  *)
(* initial-load effect queues its setState calls, the debounced-save       *)
(* effect sets a timer whose callback closes over the defaults.  An        *)
(* exception leaving an effect unmounts the page (no error boundary), and  *)
(* the unmount clears the timer.                                           *)
(***************************************************************************)
Mount ==
    /\ phase = "init"
    /\ LET r == InitialLoad(storage, access)
       IN  /\ hist' = [hist EXCEPT !.loaded = IF r.loaded THEN "yes" ELSE "no",
                                   !.legacyRead = r.legacyRead,
                                   !.threw = r.threw,
                                   !.lastRender = "mount"]
           /\ IF r.threw
              THEN /\ phase' = "crashed"
                   /\ queued' = NoUpdates
                   /\ timer' = NoTimer
              ELSE /\ phase' = IF DOMAIN r.updates = {} THEN "ready" ELSE "flush"
                   /\ queued' = r.updates
                   /\ timer' = DebouncedSaveEffect(timer, CurrentState)
    /\ UNCHANGED <<gap, amplitude, speed, dotColor, notes, showNoteForm,
                   newNote, storage, access, now>>

\* the value a queued setter gives field f
Applied(f, current) == IF f \in DOMAIN queued THEN queued[f] ELSE current

\* Every render evaluates speed.toFixed(1) and notes.length / notes.map: it
\* throws unless speed is a number (NaN included) and notes an array.
Renders(app) == app.speed.t \in {"num", "nan"} /\ app.notes.t = "arr"

\* The render the load effect's setState calls cause, and its effects.  A
\* render that throws unmounts the page; the unmount clears the mount timer.
Flush ==
    /\ phase = "flush"
    /\ gap' = Applied("gap", gap)
    /\ amplitude' = Applied("amplitude", amplitude)
    /\ speed' = Applied("speed", speed)
    /\ dotColor' = Applied("dotColor", dotColor)
    /\ notes' = Applied("notes", notes)
    /\ queued' = NoUpdates
    /\ LET app == AppStateOf(gap', amplitude', speed', dotColor', notes')
       IN  IF Renders(app)
           THEN /\ timer' = DebouncedSaveEffect(timer, app)
                /\ phase' = "ready"
           ELSE /\ timer' = NoTimer
                /\ phase' = "crashed"
    /\ UNCHANGED <<showNoteForm, newNote, storage, access, now, hist>>

(***************************************************************************)
(* Settings.  A setter called with the value the state already has makes   *)
(* React skip the render, so no effect runs.                               *)
(***************************************************************************)
SetSetting(f, v, op, arg) ==
    LET cur == CurrentState[f]
        g == IF f = "gap" THEN v ELSE gap
        a == IF f = "amplitude" THEN v ELSE amplitude
        s == IF f = "speed" THEN v ELSE speed
        c == IF f = "dotColor" THEN v ELSE dotColor
    IN  /\ phase = "ready"
        /\ hist.muts < MaxMutations
        /\ gap' = g /\ amplitude' = a /\ speed' = s /\ dotColor' = c
        /\ IF v = cur
           THEN /\ timer' = timer
                /\ hist' = [hist EXCEPT !.op = op, !.arg = arg, !.pre = Snapshot]
           ELSE /\ timer' = DebouncedSaveEffect(timer, AppStateOf(g, a, s, c, notes))
                /\ hist' = Mutated(hist, op, arg, Snapshot)
        /\ UNCHANGED <<phase, notes, showNoteForm, newNote, queued,
                       storage, access, now>>

\* the gap stepper buttons
IncrementGap ==
    \E sign \in StepSigns :
        SetSetting("gap", incrementValue(gap, sign * GAP_STEP, GAP_MIN, GAP_MAX),
                   "stepper", [f |-> "gap", d |-> sign * GAP_STEP])

\* the amplitude stepper buttons
IncrementAmplitude ==
    \E sign \in StepSigns :
        SetSetting("amplitude",
                   incrementValue(amplitude, sign * AMPLITUDE_STEP,
                                  AMPLITUDE_MIN, AMPLITUDE_MAX),
                   "stepper", [f |-> "amplitude", d |-> sign * AMPLITUDE_STEP])

\* the speed stepper buttons
IncrementSpeed ==
    \E sign \in StepSigns :
        SetSetting("speed",
                   incrementValue(speed, sign * SPEED_STEP, SPEED_MIN, SPEED_MAX),
                   "stepper", [f |-> "speed", d |-> sign * SPEED_STEP])

\* the sliders: a value between the slider's min and max
SlideGap ==
    \E v \in GapSliderValues : SetSetting("gap", Num(v), "slider", [f |-> "gap"])

SlideAmplitude ==
    \E v \in AmplitudeSliderValues :
        SetSetting("amplitude", Num(v), "slider", [f |-> "amplitude"])

SlideSpeed ==
    \E v \in SpeedSliderValues :
        SetSetting("speed", Num(v), "slider", [f |-> "speed"])

\* the colour picker
PickColor ==
    \E c \in Colors : SetSetting("dotColor", Str(c), "color", [f |-> "dotColor"])

(***************************************************************************)
(* Renders that change none of the five persisted fields.                  *)
(***************************************************************************)
\* the "Add Note" button, shown while the form is hidden
OpenNoteForm ==
    /\ phase = "ready"
    /\ ~showNoteForm
    /\ showNoteForm' = TRUE
    /\ timer' = DebouncedSaveEffect(timer, CurrentState)
    /\ hist' = Rendered(hist)
    /\ UNCHANGED <<phase, gap, amplitude, speed, dotColor, notes,
                   newNote, queued, storage, access, now>>

\* the form's inputs: setNewNote({ ...newNote, <field>: value })
EditDraft(draft) ==
    /\ phase = "ready"
    /\ showNoteForm
    /\ newNote' = draft
    /\ timer' = DebouncedSaveEffect(timer, CurrentState)
    /\ hist' = Rendered(hist)
    /\ UNCHANGED <<phase, gap, amplitude, speed, dotColor, notes,
                   showNoteForm, queued, storage, access, now>>

TypeTitle == \E t \in Titles : EditDraft([newNote EXCEPT !.title = t])

TypeContent == \E c \in Contents : EditDraft([newNote EXCEPT !.content = c])

handleDateSelect == \E d \in Dates : EditDraft([newNote EXCEPT !.date = d])

handleCancelNote ==
    /\ phase = "ready"
    /\ showNoteForm
    /\ newNote' = EmptyDraft
    /\ showNoteForm' = FALSE
    /\ timer' = DebouncedSaveEffect(timer, CurrentState)
    /\ hist' = Rendered(hist)
    /\ UNCHANGED <<phase, gap, amplitude, speed, dotColor, notes,
                   queued, storage, access, now>>

(***************************************************************************)
(* Notes.  The updater given to setNotes spreads or filters the previous   *)
(* value; on a value that is no array it throws during the render, which   *)
(* unmounts the page.                                                      *)
(***************************************************************************)
handleAddNote ==
    /\ phase = "ready"
    /\ showNoteForm
    /\ IF Trim(newNote.title) = <<>>
       THEN \* rejected: the title input is focused, nothing else happens
            /\ hist' = [hist EXCEPT !.op = "addRejected", !.arg = newNote,
                                    !.pre = Snapshot]
            /\ UNCHANGED <<phase, notes, showNoteForm, newNote, timer>>
       ELSE /\ hist.muts < MaxMutations
            /\ hist' = Mutated(hist, "add",
                               [draft |-> newNote, id |-> NumberToString(now)],
                               Snapshot)
            /\ IF notes.t = "arr"
               THEN /\ notes' = Arr(AddNote(notes.a, newNote, NumberToString(now)))
                    /\ newNote' = EmptyDraft
                    /\ showNoteForm' = FALSE
                    /\ timer' = DebouncedSaveEffect(timer,
                                    AppStateOf(gap, amplitude, speed, dotColor, notes'))
                    /\ phase' = phase
               ELSE /\ phase' = "crashed"
                    /\ timer' = NoTimer
                    /\ UNCHANGED <<notes, showNoteForm, newNote>>
    /\ UNCHANGED <<gap, amplitude, speed, dotColor, queued, storage,
                   access, now>>

\* the ids a delete request can name
DeletableIds ==
    (IF notes.t = "arr" THEN {notes.a[i].id : i \in 1..Len(notes.a)} ELSE {})
        \cup {MissingId}

handleDeleteNote ==
    /\ phase = "ready"
    /\ hist.muts < MaxMutations
    /\ \E id \in DeletableIds :
          /\ hist' = Mutated(hist, "delete", id, Snapshot)
          /\ IF notes.t = "arr"
             THEN /\ notes' = Arr(DeleteNote(notes.a, id))
                  /\ timer' = DebouncedSaveEffect(timer,
                                  AppStateOf(gap, amplitude, speed, dotColor, notes'))
                  /\ phase' = phase
             ELSE /\ phase' = "crashed"
                  /\ timer' = NoTimer
                  /\ notes' = notes
    /\ UNCHANGED <<gap, amplitude, speed, dotColor, showNoteForm,
                   newNote, queued, storage, access, now>>

(***************************************************************************)
(* Persistence.                                                            *)
(***************************************************************************)
\* the timer's callback: saveAppState of the render that set the timer
TimerFire ==
    /\ phase = "ready"
    /\ timer.on
    /\ timer.age >= DEBOUNCE_MS
    /\ \E writeOk \in WriteOutcomes :
          /\ storage' = SaveAppState(storage, timer.snap, writeOk)
          /\ hist' = NoOp([hist EXCEPT
                        !.autoAttempts = Min(@ + 1, 2),
                        !.autoWrites = IF writeOk THEN Min(@ + 1, 2) ELSE @,
                        !.failed = ~writeOk,
                        !.idle = ~writeOk,
                        !.written = IF writeOk THEN timer.snap ELSE @])
    /\ timer' = NoTimer
    /\ UNCHANGED <<phase, gap, amplitude, speed, dotColor, notes,
                   showNoteForm, newNote, queued, access, now>>

\* the Save button: saveAppState of the current render (the toast it then
\* shows is rendered by a hook outside this file)
handleManualSave ==
    /\ phase = "ready"
    /\ \E writeOk \in WriteOutcomes :
          /\ storage' = SaveAppState(storage, CurrentState, writeOk)
          /\ hist' = NoOp([hist EXCEPT
                        !.failed = ~writeOk,
                        !.idle = ~writeOk /\ ~timer.on,
                        !.written = IF writeOk THEN CurrentState ELSE @])
    /\ UNCHANGED <<phase, gap, amplitude, speed, dotColor, notes,
                   showNoteForm, newNote, queued, timer, access, now>>

\* TickMs of time pass while the page is idle
Tick ==
    /\ phase = "ready"
    /\ now' = Min(now + TickMs, MaxNow)
    /\ timer' = IF timer.on
                THEN [timer EXCEPT !.age = Min(@ + TickMs, DEBOUNCE_MS)]
                ELSE timer
    /\ hist' = NoOp([hist EXCEPT !.quiet = Min(@ + TickMs, DEBOUNCE_MS)])
    /\ UNCHANGED <<phase, gap, amplitude, speed, dotColor, notes,
                   showNoteForm, newNote, queued, storage, access>>

\* teardown: the effect's cleanup clears the pending timer
Unmount ==
    /\ phase = "ready"
    /\ phase' = "unmounted"
    /\ timer' = NoTimer
    /\ hist' = NoOp(hist)
    /\ UNCHANGED <<gap, amplitude, speed, dotColor, notes, showNoteForm,
                   newNote, queued, storage, access, now>>

Next ==
    \/ Mount
    \/ Flush
    \/ IncrementGap
    \/ IncrementAmplitude
    \/ IncrementSpeed
    \/ SlideGap
    \/ SlideAmplitude
    \/ SlideSpeed
    \/ PickColor
    \/ OpenNoteForm
    \/ TypeTitle
    \/ TypeContent
    \/ handleDateSelect
    \/ handleCancelNote
    \/ handleAddNote
    \/ handleDeleteNote
    \/ TimerFire
    \/ handleManualSave
    \/ Tick
    \/ Unmount

Spec == Init /\ [][Next]_vars

(***************************************************************************)
(* Startup under every content of the two keys: the page is loaded and     *)
(* left alone (time passes, the timer fires, the user may press Save or    *)
(* leave).                                                                 *)
(***************************************************************************)
InitLoad == InitWith(BootStorages, {"ok", "denied"})

NextLoad ==
    \/ Mount
    \/ Flush
    \/ TimerFire
    \/ handleManualSave
    \/ Tick
    \/ Unmount

SpecLoad == InitLoad /\ [][NextLoad]_vars

\* the startup load has run and its render, if any, is done
Started == phase \in {"ready", "crashed", "unmounted"}

\* a text that does not parse, or storage that cannot be read
Unreadable(item) == access # "ok" \/ item.k = "garbage"

(***************************************************************************)
(* C4  Read errors are non-fatal: whatever the two keys hold, the startup  *)
(* load raises no error, and when the persisted data is malformed or       *)
(* inaccessible the settings and notes stay at their defaults.             *)
(***************************************************************************)
C4_ReadErrorsNonFatal ==
    Started =>
        /\ ~hist.threw
        /\ (Unreadable(hist.boot) /\ ~Truthy(storage[NOTES_KEY]))
              => CurrentState = DefaultState


\* a primary record loadAppState applies: readable text holding a JSON object
Loadable(item) == access = "ok" /\ item.k = "text" /\ item.json.t = "obj"

\* the notes a legacy record holds (none when it is absent or does not parse)
LegacyNotesOf(item) == IF item.k = "text" THEN FromJson(item.json) ELSE Arr(<<>>)

\* the state a primary record alone determines
StateOfRecord(item) == [f \in StateFields |-> Property(item.json, f)]

(***************************************************************************)
(* C5 (as claimed)  The legacy record is read if and only if the primary   *)
(* record is absent; then the state is the default settings with exactly   *)
(* the legacy notes; a primary record that is present leaves the legacy    *)
(* record without influence.                                               *)
(***************************************************************************)
C5_LegacyIffPrimaryAbsent ==
    Started =>
        /\ hist.legacyRead <=> hist.boot = NoItem
        /\ hist.boot = NoItem =>
              CurrentState =
                  [DefaultState EXCEPT !.notes = LegacyNotesOf(storage[NOTES_KEY])]
        /\ (hist.boot # NoItem /\ Loadable(hist.boot)) =>
              CurrentState = StateOfRecord(hist.boot)

(***************************************************************************)
(* C5 (amended)  The legacy record is read if and only if the primary      *)
(* record was not loaded (absent, empty, not parseable, the JSON null, or  *)
(* storage unreadable); then, the legacy record being absent or a JSON     *)
(* array, the state is the default settings with exactly the legacy notes; *)
(* a primary record that loads leaves the legacy record without influence. *)
(***************************************************************************)
C5_LegacyIffPrimaryNotLoaded ==
    Started =>
        /\ hist.legacyRead <=> ~Loadable(hist.boot)
        /\ (hist.legacyRead /\ ~hist.threw) =>
              CurrentState =
                  [DefaultState EXCEPT !.notes = LegacyNotesOf(storage[NOTES_KEY])]
        /\ ~hist.legacyRead => CurrentState = StateOfRecord(hist.boot)

\* the legacy notes were adopted although a primary record was present
C5_Witness ==
    /\ phase = "ready"
    /\ hist.boot = Garbage
    /\ hist.legacyRead
    /\ notes = Arr(<<OldNote>>)
    /\ AppStateOf(gap, amplitude, speed, dotColor, Arr(<<>>)) = DefaultState

(***************************************************************************)
(* The settings controls, after a startup from no record, a saved record,  *)
(* a record with an out-of-range gap, the record {} (whose render throws)  *)
(* or a record without gap, amplitude and dotColor.                        *)
(***************************************************************************)
InitSettings ==
    InitWith({StorageAt(NoItem, NoItem), StorageAt(SavedRecord, NoItem),
              StorageAt(OutOfRangeRecord, NoItem), StorageAt(PartialRecord, NoItem),
              StorageAt(SparseRecord, NoItem)},
             {"ok"})

NextSettings ==
    \/ Mount
    \/ Flush
    \/ IncrementGap
    \/ IncrementAmplitude
    \/ IncrementSpeed
    \/ SlideGap
    \/ SlideAmplitude
    \/ SlideSpeed
    \/ PickColor

SpecSettings == InitSettings /\ [][NextSettings]_vars

InRange(v, lo, hi) == v.t = "num" /\ lo <= v.n /\ v.n <= hi

SettingsInRange ==
    /\ InRange(gap, GAP_MIN, GAP_MAX)
    /\ InRange(amplitude, AMPLITUDE_MIN, AMPLITUDE_MAX)
    /\ InRange(speed, SPEED_MIN, SPEED_MAX)

RangeOf(f) ==
    CASE f = "gap" -> [lo |-> GAP_MIN, hi |-> GAP_MAX]
      [] f = "amplitude" -> [lo |-> AMPLITUDE_MIN, hi |-> AMPLITUDE_MAX]
      [] f = "speed" -> [lo |-> SPEED_MIN, hi |-> SPEED_MAX]

\* the stepper that just ran left its setting at the requested value, or at
\* the nearest bound when the request lies outside the range
StepperClamped ==
    (hist.op = "stepper" /\ hist.pre.app[hist.arg.f].t = "num") =>
        LET f == hist.arg.f
            requested == hist.pre.app[f].n + hist.arg.d
            r == RangeOf(f)
        IN  CurrentState[f] =
                Num(IF requested < r.lo THEN r.lo
                    ELSE IF requested > r.hi THEN r.hi
                    ELSE requested)

\* the startup record, when one is loaded, holds in-range settings
BootInRange ==
    Loadable(hist.boot) =>
        LET rec == StateOfRecord(hist.boot)
        IN  /\ InRange(rec.gap, GAP_MIN, GAP_MAX)
            /\ InRange(rec.amplitude, AMPLITUDE_MIN, AMPLITUDE_MAX)
            /\ InRange(rec.speed, SPEED_MIN, SPEED_MAX)

(***************************************************************************)
(* C7 (as claimed)  In every state reachable by startup load, steppers and *)
(* sliders, gap is in [10,200], amplitude in [10,50] and speed in          *)
(* [0.5,10]; a stepper request leaving the range yields the nearest bound. *)
(***************************************************************************)
C7_SettingsBounds ==
    phase # "flush" => (SettingsInRange /\ StepperClamped)

(***************************************************************************)
(* C7 (amended)  The startup load applies the persisted settings as they   *)
(* are.  When the loaded record (if any) holds gap, amplitude and speed    *)
(* within their ranges, they stay within their ranges in every state       *)
(* reachable by steppers and sliders; and a stepper applied to a numeric   *)
(* value always yields the requested value or, when that lies outside the  *)
(* range, the nearest bound.                                               *)
(***************************************************************************)
C7_BoundsAfterInRangeLoad ==
    phase # "flush" => ((BootInRange => SettingsInRange) /\ StepperClamped)

\* a stepper request beyond the range was cut to the bound
C7_Witness ==
    /\ hist.op = "stepper"
    /\ hist.arg.f = "gap"
    /\ hist.pre.app.gap = Num(GAP_MAX - 2)
    /\ hist.arg.d = GAP_STEP
    /\ gap = Num(GAP_MAX)
    /\ BootInRange

(***************************************************************************)
(* The notes sidebar: the form and the add and delete handlers, while the  *)
(* clock runs, after a startup from no record, a saved record, a legacy    *)
(* record, or a record without notes.                                      *)
(***************************************************************************)
InitNotes ==
    InitWith({StorageAt(NoItem, NoItem), StorageAt(SavedRecord, NoItem),
              StorageAt(NoItem, LegacyRecord), StorageAt(PartialRecord, NoItem)},
             {"ok"})

NextNotes ==
    \/ Mount
    \/ Flush
    \/ OpenNoteForm
    \/ TypeTitle
    \/ TypeContent
    \/ handleDateSelect
    \/ handleCancelNote
    \/ handleAddNote
    \/ handleDeleteNote
    \/ Tick

SpecNotes == InitNotes /\ [][NextNotes]_vars

IsBlank(title) == \A i \in 1..Len(title) : title[i] \in WhiteSpace

DistinctIds(ns) ==
    \A i, j \in 1..Len(ns) : ns[i].id = ns[j].id => i = j

SettingsOf(app) == [f \in SettingFields |-> app[f]]

(***************************************************************************)
(* C8  addNote with a non-blank title yields the old notes with the new    *)
(* note (the submitted title, content and date) in front, and the new id   *)
(* differs from the id of every note already there; so the ids of the      *)
(* notes stay pairwise distinct.                                           *)
(***************************************************************************)
C8_AddNotePrependsFresh ==
    /\ (hist.op = "add" /\ phase = "ready") =>
          LET old == hist.pre.app.notes.a
              d == hist.arg.draft
          IN  /\ Len(notes.a) = Len(old) + 1
              /\ notes.a[1].title = d.title
              /\ notes.a[1].content = d.content
              /\ notes.a[1].date = d.date
              /\ \A i \in 1..Len(old) : notes.a[i + 1] = old[i]
              /\ \A i \in 1..Len(old) : old[i].id # notes.a[1].id
    /\ (phase = "ready" /\ notes.t = "arr") => DistinctIds(notes.a)

\* the part of C8 the code does guarantee: position, content and order
C8_AddNotePrepends ==
    (hist.op = "add" /\ phase = "ready") =>
        LET old == hist.pre.app.notes.a
            d == hist.arg.draft
        IN  /\ Len(notes.a) = Len(old) + 1
            /\ notes.a[1] = [id |-> NumberToString(now), title |-> d.title,
                             content |-> d.content, date |-> d.date]
            /\ \A i \in 1..Len(old) : notes.a[i + 1] = old[i]

\* the positions of the notes a delete of id keeps
Kept(old, id) == {i \in 1..Len(old) : old[i].id # id}

\* the j-th of them
KthKept(old, id, j) ==
    CHOOSE i \in Kept(old, id) : Cardinality({k \in Kept(old, id) : k <= i}) = j

C10_BlankTitleNoOp ==
    /\ hist.op = "add" => ~IsBlank(hist.arg.draft.title)
    /\ hist.op = "addRejected" =>
          /\ IsBlank(hist.pre.draft.title)
          /\ CurrentState = hist.pre.app
          /\ showNoteForm /\ hist.pre.show
          /\ newNote = hist.pre.draft
          /\ phase = "ready"

\* a whitespace title with typed content was submitted and rejected
C10_Witness ==
    /\ hist.op = "addRejected"
    /\ newNote.title = <<" ">>
    /\ newNote.content \in Contents
    /\ Len(notes.a) > 0

(***************************************************************************)
(* The history fields the persistence claims read:                         *)
(*   lastRender    what caused the last render: "mount", "mutation" (of    *)
(*                 gap, amplitude, speed, dotColor or notes) or "other"    *)
(*   quiet         ms since the last mutation (up to DEBOUNCE_MS)          *)
(*   burst         mutations since the last one that came DEBOUNCE_MS or   *)
(*                 more after its predecessor (up to 2)                    *)
(*   autoAttempts  timer-driven calls of saveAppState since the last render*)
(*   autoWrites    those whose setItem succeeded                           *)
(*   failed        the last write failed and no mutation or successful     *)
(*                 manual save came after it                               *)
(*   idle          as failed, and no timer was pending when the write      *)
(*                 failed: nothing of before the failure is left to run    *)
(*   written       the appState of the last write that succeeded           *)
(***************************************************************************)
Persisted == storage[APP_STATE_KEY]

Synced == phase = "ready" /\ Persisted = Text(Stringify(CurrentState))

(***************************************************************************)
(* Persistence on its own: startup, mutations of a setting, of the colour  *)
(* and of the notes, renders that change none of the five fields, both     *)
(* kinds of save, the clock and teardown.                                  *)
(***************************************************************************)
NextSave ==
    \/ Mount
    \/ Flush
    \/ IncrementGap
    \/ PickColor
    \/ OpenNoteForm
    \/ TypeTitle
    \/ handleCancelNote
    \/ handleAddNote
    \/ TimerFire
    \/ handleManualSave
    \/ Tick
    \/ Unmount

SpecSave == Init /\ [][NextSave]_vars

(***************************************************************************)
(* C1  Debounce: mutations each following the previous one by less than    *)
(* 500 ms result in exactly one timer-driven write, made only after 500 ms *)
(* without a mutation: every mutation clears the pending timer and sets a  *)
(* new one, which stays pending until it fires, once, with that state.     *)
(***************************************************************************)
C1_DebounceOneWrite ==
    (phase = "ready" /\ hist.lastRender = "mutation") =>
        /\ hist.autoAttempts <= 1
        /\ hist.autoAttempts = 0 <=> timer.on
        /\ timer.on => (timer.age = hist.quiet /\ timer.snap = CurrentState)
        /\ hist.autoAttempts = 1 => hist.quiet >= DEBOUNCE_MS
        /\ hist.autoWrites = 1 => Persisted = Text(Stringify(CurrentState))

\* two mutations less than 500 ms apart were followed by their one write
C1_Witness ==
    /\ phase = "ready"
    /\ hist.lastRender = "mutation"
    /\ hist.burst = 2
    /\ hist.autoWrites = 1
    /\ ~timer.on
    /\ Synced

\* a timer-driven call of saveAppState
AutoAttempt == timer.on /\ ~timer'.on /\ phase' = "ready"

(***************************************************************************)
(* C6  Write errors are non-fatal: a failing write raises no error,        *)
(* leaves the in-memory state and the persisted record as they were, and   *)
(* no write is attempted again until the next mutation or manual save.     *)
(***************************************************************************)
C6_WriteErrorsNonFatal ==
    [][/\ (~hist.failed /\ hist'.failed) =>
              (CurrentState' = CurrentState /\ storage' = storage /\ phase' = phase)
       /\ hist.idle => ~AutoAttempt]_vars

(***************************************************************************)
(* The page left running: startup, mutations (a bounded number of them),   *)
(* renders that change none of the persisted fields, the clock and the     *)
(* timer; no teardown.  The event loop runs a due timer and time passes.   *)
(***************************************************************************)
NextLive ==
    \/ Mount
    \/ Flush
    \/ IncrementGap
    \/ PickColor
    \/ OpenNoteForm
    \/ handleCancelNote
    \/ TimerFire
    \/ Tick

SpecLive ==
    /\ Init
    /\ [][NextLive]_vars
    /\ WF_vars(Mount)
    /\ WF_vars(Flush)
    /\ WF_vars(TimerFire)
    /\ WF_vars(Tick)

(***************************************************************************)
(* C2  Eventual write-through: once no further mutation occurs, the page   *)
(* is not torn down and the write succeeds, the persisted record           *)
(* eventually equals the in-memory state, field for field.                 *)
(***************************************************************************)
C2_EventualWriteThrough ==
    \/ <>[]Synced
    \/ <>hist.failed
    \/ <>(phase \in {"crashed", "unmounted"})

\* what the code does guarantee: the same, unless renders keep arriving
C2_UnlessRendersPersist ==
    \/ <>[]Synced
    \/ <>hist.failed
    \/ <>(phase \in {"crashed", "unmounted"})
    \/ []<>(hist.lastRender = "other" /\ timer.on /\ timer.age = 0)

(***************************************************************************)
(* Save, then load.  The page runs with an in-memory state of the right    *)
(* types (the settings anywhere in their ranges, any list of notes); it is *)
(* saved by the timer or the Save button, then the browser reloads the     *)
(* page: the component starts again from its initial values and loads the  *)
(* record that was written.                                                *)
(***************************************************************************)
NewerNote ==
    [id |-> NumberToString(StartNow), title |-> <<" ", "a">>, content |-> "",
     date |-> "2025-01-15"]

TypedGaps == {GAP_MIN, DEFAULT_GAP, GAP_MAX}
TypedAmplitudes == {AMPLITUDE_MIN, AMPLITUDE_MAX}
TypedSpeeds == {SPEED_MIN, DEFAULT_SPEED, SPEED_MAX}
TypedColors == {DEFAULT_COLOR} \cup Colors
TypedNotes == {<<>>, <<OldNote>>, <<NewerNote, OldNote>>}

InitRT ==
    /\ phase = "ready"
    /\ \E g \in TypedGaps : gap = Num(g)
    /\ \E a \in TypedAmplitudes : amplitude = Num(a)
    /\ \E v \in TypedSpeeds : speed = Num(v)
    /\ \E c \in TypedColors : dotColor = Str(c)
    /\ \E n \in TypedNotes : notes = Arr(n)
    /\ showNoteForm = FALSE
    /\ newNote = EmptyDraft
    /\ queued = NoUpdates
    /\ timer = DebouncedSaveEffect(NoTimer, CurrentState)
    /\ storage = StorageAt(NoItem, NoItem)
    /\ access = "ok"
    /\ now = StartNow
    /\ hist = [muts |-> 0, lastRender |-> "mutation", quiet |-> 0, burst |-> 1,
               autoAttempts |-> 0, autoWrites |-> 0,
               loaded |-> "no", legacyRead |-> TRUE, threw |-> FALSE,
               failed |-> FALSE, idle |-> FALSE, written |-> Undef,
               op |-> "none", arg |-> 0, pre |-> 0,
               boot |-> NoItem]

\* the browser reloads the page: localStorage stays, the component's state
\* starts again from its initial values
Reload ==
    /\ phase = "ready"
    /\ phase' = "init"
    /\ gap' = Num(DEFAULT_GAP)
    /\ amplitude' = Num(DEFAULT_AMPLITUDE)
    /\ speed' = Num(DEFAULT_SPEED)
    /\ dotColor' = Str(DEFAULT_COLOR)
    /\ notes' = Arr(<<>>)
    /\ showNoteForm' = FALSE
    /\ newNote' = EmptyDraft
    /\ queued' = NoUpdates
    /\ timer' = NoTimer
    /\ hist' = [hist EXCEPT !.lastRender = "none", !.quiet = 0, !.burst = 0,
                            !.autoAttempts = 0, !.autoWrites = 0,
                            !.loaded = "pending", !.legacyRead = FALSE,
                            !.failed = FALSE, !.idle = FALSE,
                            !.op = "reload", !.arg = hist.written, !.pre = 0,
                            !.boot = Persisted]
    /\ UNCHANGED <<storage, access, now>>

NextRT ==
    \/ TimerFire
    \/ handleManualSave
    \/ Tick
    \/ Reload
    \/ Mount
    \/ Flush

SpecRT == InitRT /\ [][NextRT]_vars

\* the page has loaded after a reload and nothing has happened since
Reloaded == phase = "ready" /\ hist.op = "reload"

(***************************************************************************)
(* C3  Save/load round-trip: when a state s of the right types was saved   *)
(* and the record that write produced is loaded, loading reports success   *)
(* and gap, amplitude, speed, dotColor and notes are those of s.           *)
(***************************************************************************)
C3_RoundTrip ==
    (Started /\ hist.op = "reload" /\ hist.arg # Undef) =>
        /\ phase = "ready"
        /\ hist.loaded = "yes"
        /\ ~hist.legacyRead
        /\ CurrentState = hist.arg

\* a state away from every default, with two notes, came back
C3_Witness ==
    /\ Reloaded
    /\ hist.arg # Undef
    /\ hist.loaded = "yes"
    /\ \A f \in StateFields : CurrentState[f] # DefaultState[f]
    /\ Len(notes.a) = 2
    /\ CurrentState = hist.arg

(***************************************************************************)
(* What the store leaves under the primary key: startup from no record, a  *)
(* saved record, a legacy record only, a text that does not parse, the     *)
(* record {}, a record holding speed and notes only and a record without   *)
(* dotColor; then mutations of a setting, the colour and the notes, both   *)
(* kinds of save, and the clock.                                           *)
(***************************************************************************)
InitSnapshot ==
    InitWith({StorageAt(NoItem, NoItem), StorageAt(SavedRecord, NoItem),
              StorageAt(NoItem, LegacyRecord), StorageAt(Garbage, NoItem),
              StorageAt(PartialRecord, NoItem), StorageAt(SparseRecord, NoItem),
              StorageAt(ColorlessRecord, NoItem)},
             {"ok"})

NextSnapshot ==
    \/ Mount
    \/ Flush
    \/ IncrementGap
    \/ PickColor
    \/ OpenNoteForm
    \/ TypeTitle
    \/ handleAddNote
    \/ handleDeleteNote
    \/ TimerFire
    \/ handleManualSave
    \/ Tick

SpecSnapshot == InitSnapshot /\ [][NextSnapshot]_vars

\* a JSON object is a note: four string properties
IsNoteJson(j) ==
    /\ j.t = "obj"
    /\ DOMAIN j.o = {"id", "title", "content", "date"}
    /\ \A f \in DOMAIN j.o : j.o[f].t = "str"

\* an item is a complete AppState: all five properties, of the declared types
IsAppStateRecord(item) ==
    /\ item.k = "text"
    /\ item.json.t = "obj"
    /\ DOMAIN item.json.o = StateFields
    /\ \A f \in {"gap", "amplitude", "speed"} : item.json.o[f].t = "num"
    /\ item.json.o.dotColor.t = "str"
    /\ item.json.o.notes.t = "arr"
    /\ \A i \in 1..Len(item.json.o.notes.a) : IsNoteJson(item.json.o.notes.a[i])

\* the store has written the primary record
Written == hist.written # Undef

StartupState ==
    IF Loadable(hist.boot) THEN StateOfRecord(hist.boot)
    ELSE [DefaultState EXCEPT !.notes = LegacyNotesOf(storage[NOTES_KEY])]

(***************************************************************************)
(* C12  Startup does not clobber saved data: the timer set at mount with   *)
(* the defaults is cleared by the render the load causes, so a pending     *)
(* timer always carries the state in memory; until the first mutation the  *)
(* state in memory is the loaded one (the defaults with the legacy notes   *)
(* when only a legacy record exists) and every write stores exactly that,  *)
(* so the primary record keeps its content.                                *)
(***************************************************************************)
C12_StartupNoClobber ==
    /\ (phase = "ready" /\ timer.on) => timer.snap = CurrentState
    /\ (Started /\ ~hist.threw /\ hist.muts = 0) =>
          /\ CurrentState = StartupState
          /\ Written => hist.written = StartupState
          /\ Persisted \in {hist.boot, Text(Stringify(StartupState))}
    /\ (Started /\ IsAppStateRecord(hist.boot) /\ hist.muts = 0) =>
          Persisted = hist.boot

\* a saved record was loaded and the first automatic write stored it again
C12_Witness ==
    /\ phase = "ready"
    /\ hist.boot = SavedRecord
    /\ hist.muts = 0
    /\ hist.lastRender = "mount"
    /\ hist.autoWrites = 1
    /\ hist.written = SavedState
    /\ CurrentState # DefaultState
    /\ Persisted = SavedRecord

====
